---------------------------- MODULE Spec2Model ----------------------------
(***************************************************************************)
(* Model of ffind (src/ffind.c): a parallel directory-tree search.         *)
(* A driver (wmain) seeds a work queue with the root directory and starts  *)
(* worker threads; each worker pops a directory, enumerates it, pushes the *)
(* sub-directories it finds and reports matching files.  The queue         *)
(* (WorkQ) carries the termination protocol: head/tail list,               *)
(* active_workers, stop, one CRITICAL_SECTION and one CONDITION_VARIABLE.  *)
(*                                                                         *)
(* Wide strings are sequences of one-character strings.                    *)
(***************************************************************************)
EXTENDS Integers, Sequences, FiniteSets, Bags, TLC

(***************************************************************************)
(* Bounds of the model.                                                    *)
(***************************************************************************)
\* the largest worker count (-t N) the driver is started with
MaxWorkers == 2
\* ARRAYSIZE(glob) = ARRAYSIZE(full) = MAX_PATH * 8 in the program; the
\* buffers are scaled down so that a short tree reaches their capacity
PathCap == 8
\* how many allocations / thread creations the platform may refuse in a run
MaxFaults == 1

\* the most handles WaitForMultipleObjects accepts (winnt.h); above it, and
\* with none, the call fails at once instead of waiting
MAXIMUM_WAIT_OBJECTS == 64
\* the least worker count WaitForMultipleObjects refuses
TooMany == MAXIMUM_WAIT_OBJECTS + 1

(***************************************************************************)
(* Strings.                                                                *)
(***************************************************************************)
BS == "\\"

\* towlower, on the letters the scenarios use
Lower(c) ==
  CASE c = "A" -> "a"
    [] c = "C" -> "c"
    [] c = "O" -> "o"
    [] c = "T" -> "t"
    [] c = "X" -> "x"
    [] OTHER -> c

\* the string that starts at position i of s (the pointer s + i - 1)
From(s, i) == SubSeq(s, i, Len(s))

\* the character at position i of s folded to lower case, "" (the
\* terminating NUL) past its end
At(s, i) == IF i <= Len(s) THEN Lower(s[i]) ELSE ""

\* _wcsnicmp(p, q, n) == 0: the first n characters agree ignoring case, the
\* comparison ending at a NUL that both strings reach together
wcsnicmp_eq(p, q, n) ==
  \A i \in 1..n :
    (\A j \in 1..(i - 1) : At(p, j) # "") => At(p, i) = At(q, i)

\* faulty variant: the needle is looked for at the start of hay only
wcontains_i_anchored(hay, needle) ==
  IF needle = <<>> THEN TRUE
  ELSE hay # << >> /\ wcsnicmp_eq(hay, needle, Len(needle))

wcontains_i(hay, needle) ==
  IF needle = <<>> THEN TRUE
  ELSE \E p \in 1..Len(hay) : wcsnicmp_eq(From(hay, p), needle, Len(needle))

\* the positions of s, from p on, whose character is in cs
Positions(s, p, cs) == {i \in p..Len(s) : s[i] \in cs}

\* the least and the greatest member of a non-empty set of positions
First(ps) == CHOOSE i \in ps : \A j \in ps : i <= j
Last(ps)  == CHOOSE i \in ps : \A j \in ps : j <= i

\* the loop leaves last just after the last separator, at the start if none
basename_ptr(path) ==
  LET seps == Positions(path, 1, {BS, "/"})
  IN  IF seps = {} THEN path ELSE From(path, Last(seps) + 1)

\* wcsrchr(s, c): the position of the last c in s, 0 when there is none
wcsrchr(s, c) ==
  IF Positions(s, 1, {c}) = {} THEN 0 ELSE Last(Positions(s, 1, {c}))

\* while (*p == ',' || *p == ' ' || *p == '\t') p++
SkipSeps(csv, p) ==
  LET rest == {i \in p..Len(csv) : csv[i] \notin {",", " ", "\t"}}
  IN  IF rest = {} THEN Len(csv) + 1 ELSE First(rest)

\* while (*p && *p != ',') p++
SkipEntry(csv, p) ==
  IF Positions(csv, p, {","}) = {} THEN Len(csv) + 1
  ELSE First(Positions(csv, p, {","}))

\* faulty variant: an entry is compared over the length of the entry only,
\* so that it passes every extension it is a prefix of
RECURSIVE ExtScan_prefix(_, _, _)
ExtScan_prefix(ext, csv, p) ==
  IF p > Len(csv) THEN FALSE
  ELSE \E start \in {SkipSeps(csv, p)} :
       \E stop_ \in {SkipEntry(csv, start)} :
         \/ /\ stop_ - start > 0
            /\ wcsnicmp_eq(ext, From(csv, start), stop_ - start)
         \/ ExtScan_prefix(ext, csv, stop_)

\* the loop over the entries of extcsv, from position p on
RECURSIVE ExtScan(_, _, _)
ExtScan(ext, csv, p) ==
  IF p > Len(csv) THEN FALSE
  ELSE \E start \in {SkipSeps(csv, p)} :
       \E stop_ \in {SkipEntry(csv, start)} :
         \/ /\ stop_ - start > 0
            /\ Len(ext) = stop_ - start
            /\ wcsnicmp_eq(ext, From(csv, start), stop_ - start)
         \/ ExtScan(ext, csv, stop_)

ext_allowed(filename, extcsv) ==
  IF extcsv = <<>> THEN TRUE
  ELSE LET dot == wcsrchr(filename, ".")
       IN  IF dot = 0 \/ dot = Len(filename) THEN FALSE
           ELSE ExtScan(From(filename, dot + 1), extcsv, 1)

is_dot_or_dotdot(s) == s = <<".">> \/ s = <<".", ".">>

needs_slash(dir) ==
  Len(dir) > 0 /\ dir[Len(dir)] # BS /\ dir[Len(dir)] # "/"

\* faulty variant: the capacity of the buffer is not checked
join_path_unchecked(cap, dir, name) ==
  << TRUE, dir \o (IF needs_slash(dir) THEN <<BS>> ELSE <<>>) \o name >>

\* join_path: <<ok, out>>
join_path(cap, dir, name) ==
  LET total == Len(dir) + (IF needs_slash(dir) THEN 1 ELSE 0) + Len(name) + 1
  IN  IF total > cap THEN <<FALSE, <<>>>>
      ELSE <<TRUE, dir \o (IF needs_slash(dir) THEN <<BS>> ELSE <<>>) \o name>>

\* make_glob: <<ok, out>>
make_glob(cap, dir) ==
  LET total == Len(dir) + (IF needs_slash(dir) THEN 1 ELSE 0) + 1 + 1
  IN  IF total > cap THEN <<FALSE, <<>>>>
      ELSE <<TRUE,
             dir \o (IF needs_slash(dir) THEN <<BS>> ELSE <<>>) \o <<"*">>>>


(***************************************************************************)
(* The file system (the Directory Enumerator's view) and the query.        *)
(* A scenario is a static tree and the command line searched in it.        *)
(* dirs[1] is the root; an entry is what WIN32_FIND_DATAW carries: the     *)
(* name, the attributes, and (for the model) the directory it leads to.    *)
(***************************************************************************)
File(name)     == [name |-> name, attr |-> {}, to |-> 0]
SubDir(name, d) == [name |-> name, attr |-> {"DIR"}, to |-> d]
Link(name, d)  == [name |-> name, attr |-> {"DIR", "REPARSE"}, to |-> d]
Dots           == << SubDir(<<".">>, 0), SubDir(<<".", ".">>, 0) >>
Dir(ents)      == [open |-> TRUE, ents |-> Dots \o ents]
\* a directory FindFirstFileW cannot open (access denied, vanished)
Denied(ents)   == [open |-> FALSE, ents |-> Dots \o ents]

Scenarios == <<
  \* an empty root
  [ root |-> <<"r">>, needle |-> <<"a">>, extcsv |-> <<>>, full |-> FALSE,
    dirs |-> << Dir(<< >>) >> ],
  \* root/{s/{a.c}, a.c, b.txt}, needle "a", basename mode
  [ root |-> <<"r">>, needle |-> <<"a">>, extcsv |-> <<>>, full |-> FALSE,
    dirs |-> << Dir(<< SubDir(<<"s">>, 2),
                       File(<<"a", ".", "c">>),
                       File(<<"b", ".", "t", "x", "t">>) >>),
                Dir(<< File(<<"a", ".", "c">>) >>) >> ],
  \* a junction k that leads back to the root; -e c with an empty needle
  [ root |-> <<"r">>, needle |-> <<>>, extcsv |-> <<"c">>, full |-> FALSE,
    dirs |-> << Dir(<< SubDir(<<"d">>, 2), File(<<"A", ".", "C">>) >>),
                Dir(<< Link(<<"k">>, 1), File(<<"g">>) >>) >> ],
  \* paths that reach the capacity of the buffers: the names long.c and
  \* uvw (the last entry of ro\e) do not fit, the pattern of ro\e\w does
  \* not fit; x cannot be opened; -f
  [ root |-> <<"r", "o">>, needle |-> <<"O", BS>>,
    extcsv |-> <<>>, full |-> TRUE,
    dirs |-> << Dir(<< File(<<"l", "o", "n", "g", ".", "c">>),
                       SubDir(<<"e">>, 2), SubDir(<<"x">>, 4) >>),
                Dir(<< File(<<"v">>), SubDir(<<"w">>, 3),
                       File(<<"u", "v", "w">>) >>),
                Dir(<< >>),
                Denied(<< File(<<"z">>) >>) >> ],
  \* a needle that occurs in no name
  [ root |-> <<"r">>, needle |-> <<"x", "a">>, extcsv |-> <<>>,
    full |-> FALSE,
    dirs |-> << Dir(<< File(<<"a", ".", "x">>), File(<<"A", "c">>) >>) >> ]
>>

\* the position of the first separator of s at or after p, Len(s)+1 if none
NextSep(s, p) ==
  IF Positions(s, p, {BS, "/"}) = {} THEN Len(s) + 1
  ELSE First(Positions(s, p, {BS, "/"}))

\* the entries of directory d of tree T that are directories called name
Children(T, d, name) ==
  {i \in 1..Len(T.dirs[d].ents) :
     /\ T.dirs[d].ents[i].name = name
     /\ "DIR" \in T.dirs[d].ents[i].attr
     /\ T.dirs[d].ents[i].to # 0}

\* the directory a path names, walking down from directory d:
\* [id |-> 0] when there is none, link when a reparse point was followed
RECURSIVE Walk(_, _, _, _)
Walk(T, d, rest, link) ==
  IF rest = << >> THEN [id |-> d, link |-> link]
  ELSE IF rest[1] # BS /\ rest[1] # "/" THEN [id |-> 0, link |-> link]
  ELSE CHOOSE r \in
         { IF name = << >> THEN Walk(T, d, more, link)
           ELSE IF Children(T, d, name) = {} THEN [id |-> 0, link |-> link]
           ELSE CHOOSE x \in
                  { Walk(T, en.to, more, link \/ "REPARSE" \in en.attr) :
                    en \in {T.dirs[d].ents[First(Children(T, d, name))]} } :
                  TRUE :
           name \in {SubSeq(rest, 2, NextSep(rest, 2) - 1)},
           more \in {From(rest, NextSep(rest, 2))} } : TRUE

Resolve(T, path) ==
  IF Len(path) >= Len(T.root) /\ SubSeq(path, 1, Len(T.root)) = T.root
  THEN Walk(T, 1, From(path, Len(T.root) + 1), FALSE)
  ELSE [id |-> 0, link |-> FALSE]

\* FindFirstFileW(glob): the directory whose entries the handle enumerates,
\* 0 for INVALID_HANDLE_VALUE
FindFirstFileW(T, glob) ==
  CHOOSE hd \in
    { IF r.id # 0 /\ T.dirs[r.id].open /\ T.dirs[r.id].ents # << >>
      THEN r.id ELSE 0 :
      r \in {Resolve(T, SubSeq(glob, 1, Len(glob) - 1))} } : TRUE

(***************************************************************************)
(* State.                                                                  *)
(***************************************************************************)
VARIABLES
  call,           \* a call of the Matcher on its own: its arguments, its result
  sc,             \* the scenario: the tree and the query of this run
  requested,      \* the worker count wmain settled on (-t N or the CPU count)
  threads,        \* wmain's threads: the worker count, cut by a failed launch
  mpc,            \* where wmain is
  launched,       \* wmain's loop index i: the threads created so far
  exitCode,       \* the process's exit code, -1 while it runs
  summary,        \* what the summary printed: <<found, dirs, files, threads>>
  q,              \* WorkQ head..tail: the queued paths, oldest first
  active_workers, \* WorkQ.active_workers
  stop,           \* WorkQ.stop
  mu,             \* WorkQ.mu: its owner, 0 when free
  out_mu,         \* Ctx.out_mu: its owner, 0 when free
  pc,             \* where each worker thread is
  dir,            \* each worker's dir, the path it popped and owns
  h,              \* each worker's find handle: the directory it enumerates
  idx,            \* the entry fd holds: its position in that directory
  found, dirs_scanned, files_scanned,   \* Ctx counters
  output,         \* the lines written to stdout (a bag: their order is free)
  faults,         \* refusals of the platform so far
  allocd,         \* history: the paths allocated (wcsdup_heap returned them)
  pushed,         \* history: the paths linked into the queue
  popped,         \* history: <<path, worker>> for every path wq_pop returned
  freed           \* history: <<path, thread>> for every free of a path

vars == << call, sc, requested, threads, mpc, launched, exitCode, summary, q,
           active_workers, stop, mu, out_mu, pc, dir, h, idx, found,
           dirs_scanned, files_scanned, output, faults, allocd, pushed,
           popped, freed >>

qvars   == << q, active_workers, stop >>
ctrvars == << found, dirs_scanned, files_scanned, output >>
cfgvars == << call, sc, requested >>
mainvars == << cfgvars, threads, mpc, launched, exitCode, summary >>
histvars == << allocd, pushed, popped, freed >>

Workers == 1..MaxWorkers
S == Scenarios[sc]
One(x) == SetToBag({x})
Sleepers == {w \in Workers : pc[w] = "sleep"}

\* the queue after wq_init, the counters at 0, no thread created
Fresh ==
  /\ launched = 0 /\ exitCode = -1 /\ summary = << >>
  /\ q = << >> /\ active_workers = 0 /\ stop = FALSE
  /\ mu = 0 /\ out_mu = 0
  /\ pc = [w \in Workers |-> "idle"]
  /\ dir = [w \in Workers |-> << >>]
  /\ h = [w \in Workers |-> 0]
  /\ idx = [w \in Workers |-> 0]
  /\ found = 0 /\ dirs_scanned = 0 /\ files_scanned = 0
  /\ output = EmptyBag
  /\ faults = 0
  /\ allocd = EmptyBag /\ pushed = EmptyBag
  /\ popped = EmptyBag /\ freed = EmptyBag

\* the state wq_init and the declarations of wmain leave, for worker count n
Start(n) ==
  /\ sc \in DOMAIN Scenarios
  /\ requested = n
  /\ threads = requested
  /\ mpc = "seed"
  /\ Fresh

\* the program runs: the Matcher is called by the workers only
NoCall == [fn |-> "none"]

\* a worker count within the bound: every thread created is followed
Init == call = NoCall /\ \E n \in 1..MaxWorkers : Start(n)

\* a worker count above what WaitForMultipleObjects accepts.  The threads
\* past MaxWorkers are created but not followed: they are the threads that
\* have not been scheduled yet
WideInit == call = NoCall /\ Start(TooMany)

(***************************************************************************)
(* The condition variable.                                                 *)
(***************************************************************************)
\* faulty variant: the wake-up is left out
WakeAll_none(p) == p

\* WakeAllConditionVariable: every thread sleeping on cv goes back to
\* re-acquiring mu
WakeAllConditionVariable(p) ==
  [w \in Workers |-> IF p[w] = "sleep" THEN "pop_enter" ELSE p[w]]

\* WakeConditionVariable: one sleeping thread, x, goes back to re-acquiring
\* mu; nothing happens when no thread sleeps (x = 0)
WakeConditionVariable(p, x) ==
  [w \in Workers |-> IF w = x /\ p[w] = "sleep" THEN "pop_enter" ELSE p[w]]

\* the threads WakeConditionVariable may pick
WakeChoices == IF Sleepers = {} THEN {0} ELSE Sleepers

\* SleepConditionVariableCS may return without a wake
SpuriousWake(w) ==
  /\ pc[w] = "sleep"
  /\ pc' = [pc EXCEPT ![w] = "pop_enter"]
  /\ UNCHANGED << mainvars, qvars, mu, out_mu, dir, h, idx, ctrvars, faults,
                  histvars >>

(***************************************************************************)
(* wq_pop.                                                                 *)
(***************************************************************************)
\* EnterCriticalSection(&q->mu), also on the way out of
\* SleepConditionVariableCS
PopEnter(w) ==
  /\ pc[w] = "pop_enter"
  /\ mu = 0
  /\ mu' = w
  /\ pc' = [pc EXCEPT ![w] = "pop_cs"]
  /\ UNCHANGED << mainvars, qvars, out_mu, dir, h, idx, ctrvars, faults,
                  histvars >>

\* faulty variant: the check for active workers is left out
Exhausted_unchecked == TRUE

\* faulty variant: the head node is returned but stays linked
Dequeue_keep(nodes) == nodes

\* faulty variant: the worker that asks counts itself as active
Exhausted_early == active_workers <= 1

\* "no queued work: if no one active, we are done"
Exhausted == active_workers = 0

\* unlink the head node: q->head = n->next
Dequeue(nodes) == Tail(nodes)

\* one turn of wq_pop's loop, inside the critical section
PopBody(w) ==
  /\ pc[w] = "pop_cs"
  /\ mu = w
  /\ IF stop
     THEN /\ mu' = 0
          /\ pc' = [pc EXCEPT ![w] = "exit"]
          /\ UNCHANGED << qvars, dir, popped >>
     ELSE IF q # << >>
     THEN /\ dir' = [dir EXCEPT ![w] = Head(q)]
          /\ q' = Dequeue(q)
          /\ active_workers' = active_workers + 1
          /\ popped' = popped (+) One(<<Head(q), w>>)
          /\ mu' = 0
          /\ pc' = [pc EXCEPT ![w] = "open"]
          /\ UNCHANGED stop
     ELSE IF Exhausted
     THEN /\ stop' = TRUE
          /\ mu' = 0
          /\ pc' = [WakeAllConditionVariable(pc) EXCEPT ![w] = "exit"]
          /\ UNCHANGED << q, active_workers, dir, popped >>
     ELSE /\ mu' = 0
          /\ pc' = [pc EXCEPT ![w] = "sleep"]
          /\ UNCHANGED << qvars, dir, popped >>
  /\ UNCHANGED << mainvars, out_mu, h, idx, ctrvars, faults, allocd, pushed,
                  freed >>

(***************************************************************************)
(* wq_done_one.                                                            *)
(***************************************************************************)
DoneEnter(w) ==
  /\ pc[w] = "done_enter"
  /\ mu = 0
  /\ mu' = w
  /\ pc' = [pc EXCEPT ![w] = "done_cs"]
  /\ UNCHANGED << mainvars, qvars, out_mu, dir, h, idx, ctrvars, faults,
                  histvars >>

\* faulty variant: wq_done_one leaves active_workers as it is
DoneBody_nodec(w) ==
  /\ pc[w] = "done_cs"
  /\ mu = w
  /\ pc' = [WakeAllConditionVariable(pc) EXCEPT ![w] = "pop_enter"]
  /\ mu' = 0
  /\ UNCHANGED << mainvars, qvars, out_mu, dir, h, idx, ctrvars, faults,
                  histvars >>

\* InterlockedDecrement, WakeAllConditionVariable, LeaveCriticalSection
DoneBody(w) ==
  /\ pc[w] = "done_cs"
  /\ mu = w
  /\ active_workers' = active_workers - 1
  /\ pc' = [WakeAllConditionVariable(pc) EXCEPT ![w] = "pop_enter"]
  /\ mu' = 0
  /\ UNCHANGED << mainvars, q, stop, out_mu, dir, h, idx, ctrvars, faults,
                  histvars >>

(***************************************************************************)
(* worker_thread.                                                          *)
(***************************************************************************)
\* the entry fd holds, and the path join_path builds for it
Entry(w) == S.dirs[h[w]].ents[idx[w]]
Full(w)  == join_path(PathCap, dir[w], Entry(w).name)

\* the end of the do/while body: FindNextFileW, and after the last entry
\* FindClose(h); free(dir).  p is pc and fr is freed as the body leaves them
Advance(w, p, fr) ==
  IF idx[w] < Len(S.dirs[h[w]].ents)
  THEN /\ idx' = [idx EXCEPT ![w] = idx[w] + 1]
       /\ pc' = [p EXCEPT ![w] = "scan"]
       /\ freed' = fr
       /\ UNCHANGED << dir, h >>
  ELSE /\ idx' = [idx EXCEPT ![w] = 0]
       /\ h' = [h EXCEPT ![w] = 0]
       /\ freed' = fr (+) One(<<dir[w], w>>)
       /\ dir' = [dir EXCEPT ![w] = << >>]
       /\ pc' = [p EXCEPT ![w] = "done_enter"]

\* faulty variant: the worker goes back to wq_pop without wq_done_one
Abandon_nodone(w) ==
  /\ freed' = freed (+) One(<<dir[w], w>>)
  /\ dir' = [dir EXCEPT ![w] = << >>]
  /\ pc' = [pc EXCEPT ![w] = "pop_enter"]
  /\ UNCHANGED << h, idx >>

\* enumeration failed: free(dir); wq_done_one(ctx->q); continue
Abandon(w) ==
  /\ freed' = freed (+) One(<<dir[w], w>>)
  /\ dir' = [dir EXCEPT ![w] = << >>]
  /\ pc' = [pc EXCEPT ![w] = "done_enter"]
  /\ UNCHANGED << h, idx >>

\* from wq_pop's return to the first entry: count the directory, build the
\* pattern, open the enumeration; on failure free(dir) and go to wq_done_one
OpenDir(w) ==
  /\ pc[w] = "open"
  /\ dirs_scanned' = dirs_scanned + 1
  /\ LET g  == make_glob(PathCap, dir[w])
         hd == IF g[1] THEN FindFirstFileW(S, g[2]) ELSE 0
     IN  IF hd = 0
         THEN Abandon(w)
         ELSE /\ h' = [h EXCEPT ![w] = hd]
              /\ idx' = [idx EXCEPT ![w] = 1]
              /\ pc' = [pc EXCEPT ![w] = "scan"]
              /\ UNCHANGED << dir, freed >>
  /\ UNCHANGED << mainvars, qvars, mu, out_mu, found, files_scanned, output,
                  faults, allocd, pushed, popped >>

\* faulty variant: junctions and symbolic links are followed
SkipsDirectory_never(e) == FALSE

\* whether the worker leaves a directory entry alone instead of queueing it
SkipsDirectory(e) == "REPARSE" \in e.attr

\* whether a file is reported
Matches(name, full) ==
  /\ ext_allowed(name, S.extcsv)
  /\ wcontains_i(IF S.full THEN full ELSE basename_ptr(full), S.needle)

\* faulty variant: the path is not freed when the node cannot be allocated
PushFailed_leak(w, dir_owned) ==
  /\ allocd' = allocd (+) One(dir_owned)
  /\ Advance(w, pc, freed)

\* wq_push_owned when malloc(sizeof(Node)) returns NULL: "drop work item",
\* free(dir_owned), return; the do/while body then ends
PushFailed(w, dir_owned) ==
  /\ allocd' = allocd (+) One(dir_owned)
  /\ Advance(w, pc, freed (+) One(<<dir_owned, w>>))

\* the do/while body for the entry fd holds, up to the first place where
\* the worker has to take a lock
ScanEntry(w) ==
  /\ pc[w] = "scan"
  /\ LET e == Entry(w)
         j == Full(w)
     IN
     IF is_dot_or_dotdot(e.name) \/ ~j[1]
     THEN /\ Advance(w, pc, freed)
          /\ UNCHANGED << found, files_scanned, faults, allocd >>
     ELSE IF "DIR" \in e.attr
     THEN /\ UNCHANGED << found, files_scanned >>
          /\ IF SkipsDirectory(e)
             THEN /\ Advance(w, pc, freed)
                  /\ UNCHANGED << faults, allocd >>
             ELSE \* wcsdup_heap(full) returns NULL
                  \/ /\ faults < MaxFaults
                     /\ faults' = faults + 1
                     /\ Advance(w, pc, freed)
                     /\ UNCHANGED allocd
                  \* wq_push_owned's malloc returns NULL: free(dir_owned)
                  \/ /\ faults < MaxFaults
                     /\ faults' = faults + 1
                     /\ PushFailed(w, j[2])
                  \* the copy and the node are there: go and link the node
                  \/ /\ allocd' = allocd (+) One(j[2])
                     /\ pc' = [pc EXCEPT ![w] = "push_enter"]
                     /\ UNCHANGED << faults, dir, h, idx, freed >>
     ELSE /\ files_scanned' = files_scanned + 1
          /\ UNCHANGED << faults, allocd >>
          /\ IF Matches(e.name, j[2])
             THEN /\ found' = found + 1
                  /\ pc' = [pc EXCEPT ![w] = "out_enter"]
                  /\ UNCHANGED << dir, h, idx, freed >>
             ELSE /\ Advance(w, pc, freed)
                  /\ UNCHANGED found
  /\ UNCHANGED << mainvars, qvars, mu, out_mu, dirs_scanned, output, pushed,
                  popped >>

\* faulty variant: the output lock is taken without waiting for its owner
OutEnter_nolock(w) ==
  /\ pc[w] = "out_enter"
  /\ out_mu' = w
  /\ pc' = [pc EXCEPT ![w] = "out_cs"]
  /\ UNCHANGED << mainvars, qvars, mu, dir, h, idx, ctrvars, faults,
                  histvars >>

\* EnterCriticalSection(&ctx->out_mu)
OutEnter(w) ==
  /\ pc[w] = "out_enter"
  /\ out_mu = 0
  /\ out_mu' = w
  /\ pc' = [pc EXCEPT ![w] = "out_cs"]
  /\ UNCHANGED << mainvars, qvars, mu, dir, h, idx, ctrvars, faults,
                  histvars >>

\* wprintf(full); LeaveCriticalSection(&ctx->out_mu); then the next entry
OutBody(w) ==
  /\ pc[w] = "out_cs"
  /\ out_mu = w
  /\ output' = output (+) One(Full(w)[2])
  /\ out_mu' = 0
  /\ Advance(w, pc, freed)
  /\ UNCHANGED << mainvars, qvars, mu, found, dirs_scanned, files_scanned,
                  faults, allocd, pushed, popped >>

(***************************************************************************)
(* wq_push_owned, called by a worker.                                      *)
(***************************************************************************)
PushEnter(w) ==
  /\ pc[w] = "push_enter"
  /\ mu = 0
  /\ mu' = w
  /\ pc' = [pc EXCEPT ![w] = "push_cs"]
  /\ UNCHANGED << mainvars, qvars, out_mu, dir, h, idx, ctrvars, faults,
                  histvars >>

\* faulty variant: the node is linked as the head whether or not there is a tail
Enqueue_lost(nodes, n) == << n >>

\* faulty variant: the node is linked in front of the head
Enqueue_front(nodes, n) == << n >> \o nodes

\* if (q->tail) q->tail->next = n; else q->head = n; q->tail = n
Enqueue(nodes, n) == Append(nodes, n)

\* link the node at the tail, wake one sleeper, leave; then the next entry
PushBody(w) ==
  /\ pc[w] = "push_cs"
  /\ mu = w
  /\ q' = Enqueue(q, Full(w)[2])
  /\ pushed' = pushed (+) One(Full(w)[2])
  /\ mu' = 0
  /\ \E x \in WakeChoices : Advance(w, WakeConditionVariable(pc, x), freed)
  /\ UNCHANGED << mainvars, active_workers, stop, out_mu, ctrvars, faults,
                  allocd, popped >>

(***************************************************************************)
(* wmain, from wq_init on (the command line is parsed: Init holds it).     *)
(***************************************************************************)
\* wq_destroy: free every node still queued, and its path
RECURSIVE FreeQueued(_, _)
FreeQueued(nodes, fr) ==
  IF nodes = << >> THEN fr
  ELSE FreeQueued(Tail(nodes), fr (+) One(<<Head(nodes), 0>>))

\* seed root: copy the root path and push it
Seed ==
  /\ mpc = "seed"
  /\ \/ \* wcsdup_heap(root) returns NULL: "Out of memory", return 1
        /\ faults < MaxFaults
        /\ faults' = faults + 1
        /\ exitCode' = 1
        /\ mpc' = "exited"
        /\ UNCHANGED << q, allocd, pushed, freed >>
     \/ \* wq_push_owned's malloc returns NULL: the root is dropped
        /\ faults < MaxFaults
        /\ faults' = faults + 1
        /\ allocd' = allocd (+) One(S.root)
        /\ freed' = freed (+) One(<<S.root, 0>>)
        /\ mpc' = "alloc_hs"
        /\ UNCHANGED << q, pushed, exitCode >>
     \/ /\ mu = 0
        /\ allocd' = allocd (+) One(S.root)
        /\ q' = Enqueue(q, S.root)
        /\ pushed' = pushed (+) One(S.root)
        /\ mpc' = "alloc_hs"
        /\ UNCHANGED << faults, freed, exitCode >>
  /\ UNCHANGED << cfgvars, threads, launched, summary, active_workers, stop,
                  mu, out_mu, pc, dir, h, idx, ctrvars, popped >>

\* set up ctx and allocate the handle array
AllocHandles ==
  /\ mpc = "alloc_hs"
  /\ \/ \* malloc returns NULL: "Out of memory", wq_destroy, return 1
        /\ faults < MaxFaults
        /\ faults' = faults + 1
        /\ mu = 0
        /\ freed' = FreeQueued(q, freed)
        /\ q' = << >>
        /\ exitCode' = 1
        /\ mpc' = "exited"
     \/ /\ mpc' = "launch"
        /\ UNCHANGED << faults, freed, q, exitCode >>
  /\ UNCHANGED << cfgvars, threads, launched, summary, active_workers, stop,
                  mu, out_mu, pc, dir, h, idx, ctrvars, allocd, pushed,
                  popped >>

\* one turn of the launch loop: CreateThread for worker launched + 1
Launch ==
  /\ mpc = "launch"
  /\ launched < threads
  /\ \/ /\ pc' = [w \in Workers |->
                    IF w = launched + 1 THEN "pop_enter" ELSE pc[w]]
        /\ launched' = launched + 1
        /\ mpc' = IF launched + 1 < threads THEN "launch" ELSE "wait"
        /\ UNCHANGED << threads, faults >>
     \/ \* CreateThread fails: threads = i, break
        /\ faults < MaxFaults
        /\ faults' = faults + 1
        /\ threads' = launched
        /\ mpc' = "wait"
        /\ UNCHANGED << pc, launched >>
  /\ UNCHANGED << cfgvars, exitCode, summary, qvars, mu, out_mu, dir, h, idx,
                  ctrvars, histvars >>

\* faulty variant: the driver does not wait for the workers
Wait_nowait ==
  /\ mpc = "wait"
  /\ mpc' = "teardown"
  /\ UNCHANGED << cfgvars, threads, launched, exitCode, summary, qvars, mu,
                  out_mu, pc, dir, h, idx, ctrvars, faults, histvars >>

\* WaitForMultipleObjects(threads, hs, TRUE, INFINITE): returns when every
\* thread whose handle it was given has ended, or at once when the count is
\* one it refuses
Wait ==
  /\ mpc = "wait"
  /\ \/ threads = 0
     \/ threads > MAXIMUM_WAIT_OBJECTS
     \/ \A w \in Workers : w <= threads => pc[w] = "exit"
  /\ mpc' = "teardown"
  /\ UNCHANGED << cfgvars, threads, launched, exitCode, summary, qvars, mu,
                  out_mu, pc, dir, h, idx, ctrvars, faults, histvars >>

\* CloseHandle each, free(hs), DeleteCriticalSection(out_mu), wq_destroy
Teardown ==
  /\ mpc = "teardown"
  /\ mu = 0
  /\ freed' = FreeQueued(q, freed)
  /\ q' = << >>
  /\ mpc' = "summary"
  /\ UNCHANGED << cfgvars, threads, launched, exitCode, summary,
                  active_workers, stop, mu, out_mu, pc, dir, h, idx, ctrvars,
                  faults, allocd, pushed, popped >>

\* the process ends: every thread still running ends with it
ExitProcess(p) ==
  [w \in Workers |-> IF p[w] \in {"idle", "exit"} THEN p[w] ELSE "killed"]

\* the summary on stderr, return 0
Summary ==
  /\ mpc = "summary"
  /\ summary' = << found, dirs_scanned, files_scanned, threads >>
  /\ exitCode' = 0
  /\ mpc' = "exited"
  /\ pc' = ExitProcess(pc)
  /\ UNCHANGED << cfgvars, threads, launched, qvars, mu, out_mu, dir, h, idx,
                  ctrvars, faults, histvars >>

\* a worker that is still running when wmain has deleted the critical
\* sections uses a deleted lock: the behaviour is undefined.  The worker may
\* go on as if nothing had happened (its own steps), or the process dies
UseAfterDelete ==
  /\ mpc = "summary"
  /\ \E w \in Workers :
       pc[w] \in {"pop_enter", "pop_cs", "sleep", "out_enter", "out_cs",
                  "push_enter", "push_cs", "done_enter", "done_cs"}
  /\ exitCode' = 3
  /\ mpc' = "exited"
  /\ pc' = ExitProcess(pc)
  /\ UNCHANGED << cfgvars, threads, launched, summary, qvars, mu, out_mu, dir,
                  h, idx, ctrvars, faults, histvars >>

(***************************************************************************)
(* Specifications.                                                         *)
(***************************************************************************)
\* a step of worker thread w's own code
WorkerStep(w) ==
  \/ PopEnter(w) \/ PopBody(w)
  \/ OpenDir(w) \/ ScanEntry(w)
  \/ OutEnter(w) \/ OutBody(w)
  \/ PushEnter(w) \/ PushBody(w)
  \/ DoneEnter(w) \/ DoneBody(w)

MainStep == Seed \/ AllocHandles \/ Launch \/ Wait \/ Teardown \/ Summary

Next ==
  \/ MainStep
  \/ \E w \in Workers : WorkerStep(w)
  \/ \E w \in Workers : SpuriousWake(w)

Spec == Init /\ [][Next]_vars

\* a step of the program itself, as opposed to a spurious wake-up
Progress == MainStep \/ \E w \in Workers : WorkerStep(w)

\* fair scheduling: while some thread can run, some thread does run, and
\* SleepConditionVariableCS returns without a wake only finitely often.
\* No thread is promised a wake-up the program does not send.
Fairness ==
  /\ WF_vars(Progress)
  /\ <>[][\A w \in Workers : ~SpuriousWake(w)]_vars

LiveSpec == Spec /\ Fairness

\* the runs with more workers than the wait accepts
WideNext == Next \/ UseAfterDelete
WideSpec == WideInit /\ [][WideNext]_vars

TypeOK ==
  /\ call.fn \in {"none", "ext_allowed", "match"}
  /\ sc \in DOMAIN Scenarios
  /\ requested \in (1..MaxWorkers) \cup {TooMany}
  /\ threads \in 0..requested
  /\ mpc \in {"seed", "alloc_hs", "launch", "wait", "teardown", "summary",
              "exited"}
  /\ launched \in 0..threads
  /\ exitCode \in {-1, 0, 1, 3}
  /\ active_workers \in 0..MaxWorkers
  /\ stop \in BOOLEAN
  /\ mu \in 0..MaxWorkers /\ out_mu \in 0..MaxWorkers
  /\ \A w \in Workers :
       pc[w] \in {"idle", "pop_enter", "pop_cs", "sleep", "open", "scan",
                  "out_enter", "out_cs", "push_enter", "push_cs",
                  "done_enter", "done_cs", "exit", "killed"}
  /\ faults \in 0..MaxFaults

(***************************************************************************)
(* The Matcher on its own: ext_allowed and the substring test are called   *)
(* on arguments drawn from the sets below, as worker_thread calls them on  *)
(* an entry.  The driver is not running in these states.                   *)
(***************************************************************************)
progvars == << sc, requested, threads, mpc, launched, exitCode, summary,
               qvars, mu, out_mu, pc, dir, h, idx, ctrvars, faults,
               histvars >>

\* file names (fd.cFileName)
FileNames ==
  { <<"a", ".", "T", "X", "T">>, <<"a", ".", "t", "e", "x", "t">>,
    <<"a", ".", "t", "x">>, <<"a">>, <<"a", ".">>, <<".", "t", "x", "t">>,
    <<"a", ".", "c", ".", "t", "x", "t">>,
    <<"a", ".", "t", "x", "t", ".", "c">>,
    <<"t", "x", "t">>, <<"a", ".", "C">> }

\* extension lists (-e)
ExtLists ==
  { << >>, <<"t", "x", "t">>, <<"T", "x", "T">>, <<"c", ",", "t", "x", "t">>,
    <<"t", "x", "t", ",", "c">>, <<",", "t", "x", "t">>, <<"t", "x", "t", ",">>,
    <<",", ",">>, <<"t", "x">>, <<"t", "e", "x", "t">>, <<".", "t", "x", "t">>,
    <<"c", ",", ",", "t", "x">>,
    <<" ", "t", "x", "t">>, <<"\t", "c">>, <<"c", ",", " ", "t", "x", "t">>,
    <<"t", "x", "t", " ">>, <<"c", "\t", ",", "t", "x">>,
    <<"c", " ", ",", " ", "t", "x", "t">>, <<" ">>, <<" ", ",", "\t">> }

ExtCalls ==
  { [fn |-> "ext_allowed", filename |-> f, extcsv |-> l,
     done |-> FALSE, ret |-> FALSE] : f \in FileNames, l \in ExtLists }

\* directories (dir), entry names and needles for the substring test
MatchDirs == { <<"r">>, <<"a", BS>>, <<"r", "/", "A">>, <<"c", BS, "a", "t">> }
MatchNames ==
  { <<"a", "t">>, <<"T", "a">>, <<"c", "A", "t">>, <<"x">>, <<"A">> }
Needles ==
  { << >>, <<"a">>, <<"A", "T">>, <<"t", "a">>, <<"a", "a">>, <<"r", BS>>,
    <<BS, "a">>, <<"/", "a">>, <<"c", "a", "t", "x">>, <<"o">> }

\* the entries worker_thread gets past join_path with
MatchCalls ==
  { c \in [fn : {"match"}, dir : MatchDirs, filename : MatchNames,
           needle : Needles, match_full_path : BOOLEAN,
           done : {FALSE}, ret : {FALSE}] :
      join_path(PathCap, c.dir, c.filename)[1] }

MatcherInit ==
  /\ call \in ExtCalls \cup MatchCalls
  /\ sc = 1 /\ requested = 1 /\ threads = 1
  /\ mpc = "exited"
  /\ Fresh

\* if (!ext_allowed(name, ctx->extcsv)) continue
CallExtAllowed ==
  /\ call.fn = "ext_allowed" /\ ~call.done
  /\ call' = [call EXCEPT !.done = TRUE,
                          !.ret = ext_allowed(call.filename, call.extcsv)]
  /\ UNCHANGED progvars

\* target = match_full_path ? full : basename_ptr(full);
\* wcontains_i(target, ctx->needle)
CallContains ==
  /\ call.fn = "match" /\ ~call.done
  /\ LET full   == join_path(PathCap, call.dir, call.filename)[2]
         target == IF call.match_full_path THEN full ELSE basename_ptr(full)
     IN  call' = [call EXCEPT !.done = TRUE,
                             !.ret = wcontains_i(target, call.needle)]
  /\ UNCHANGED progvars

MatcherNext == CallExtAllowed \/ CallContains
MatcherSpec == MatcherInit /\ [][MatcherNext]_vars

\* the program's runs together with the calls of the Matcher on its own
SearchSpec == (Init \/ MatcherInit) /\ [][Next \/ MatcherNext]_vars

(***************************************************************************)
(* Claims.                                                                 *)
(***************************************************************************)
Scanning(w) ==
  pc[w] \in {"open", "scan", "out_enter", "out_cs", "push_enter", "push_cs",
             "done_enter", "done_cs"}

\* the run is over: wmain has returned and no thread is left running
Finished == mpc = "exited" /\ \A w \in Workers : pc[w] \in {"idle", "exit"}

\* C1: under fair scheduling every worker that was started eventually gets
\* the stop-signal from wq_pop and exits, and the run ends: no worker stays
\* blocked in wq_pop for ever (no missed wake-up, no deadlock).
C1_AllWorkersExit ==
  /\ \A w \in Workers : (pc[w] # "idle") ~> (pc[w] = "exit")
  /\ <>[]Finished

\* the last active worker is in wq_done_one with the FIFO empty while
\* another worker is blocked in wq_pop
C1_Witness ==
  \E w \in Workers, v \in Workers :
    /\ pc[w] = "done_cs" /\ active_workers = 1 /\ q = << >>
    /\ pc[v] = "sleep"

\* C2: stop is set only by a wq_pop that holds mu and sees the FIFO empty
\* and active_workers = 0; so whenever stop is set the FIFO is empty,
\* active_workers is 0 and no worker is scanning a directory.
C2_StopOnlyWhenExhausted ==
  /\ [](stop => /\ q = << >>
                /\ active_workers = 0
                /\ \A w \in Workers : ~Scanning(w) /\ dir[w] = << >>)
  /\ [][(~stop /\ stop') =>
          \E w \in Workers : /\ pc[w] = "pop_cs" /\ mu = w
                             /\ q = << >> /\ active_workers = 0
                             /\ pc'[w] = "exit"]_vars

\* stop has been set after two workers scanned the directories of a tree
C2_Witness ==
  /\ stop /\ dirs_scanned >= 2
  /\ \E w \in Workers, v \in Workers :
       w # v /\ \E x \in BagToSet(popped) : x[2] = w
             /\ \E y \in BagToSet(popped) : y[2] = v

\* C3: a pushed path is returned by at most one wq_pop, no two workers own
\* the same path, and a popped path is freed exactly once, by the worker
\* that popped it (it is unfreed while that worker owns it, freed once after).
C3_SingleOwner ==
  /\ \A x \in BagToSet(popped) :
       /\ CopiesIn(x, popped) = 1
       /\ \A y \in BagToSet(popped) : y[1] = x[1] => y = x
       /\ CopiesIn(x[1], pushed) = 1
       /\ CopiesIn(x, freed) = IF dir[x[2]] = x[1] THEN 0 ELSE 1
       /\ \A y \in BagToSet(freed) : y[1] = x[1] => y = x
  /\ \A w \in Workers, v \in Workers :
       w # v /\ dir[w] # << >> => dir[w] # dir[v]
  /\ \A w \in Workers : dir[w] # << >> => \A n \in 1..Len(q) : q[n] # dir[w]

\* two workers each own a popped path, and a path popped earlier has been
\* freed
C3_Witness ==
  /\ \E w \in Workers, v \in Workers :
       w # v /\ dir[w] # << >> /\ dir[v] # << >>
  /\ freed # EmptyBag

(***************************************************************************)
(* What a sequential walk of the scenario's tree finds.  With ideal the    *)
(* walk is the one the specification describes: every directory reachable  *)
(* through sub-directories that are not reparse points, every file entry   *)
(* in them.  Without it the walk has the program's limits: a path is       *)
(* followed only if it fits a buffer of PathCap characters, a directory    *)
(* is listed only if its pattern fits and FindFirstFileW opens it.         *)
(***************************************************************************)
PathOf(parent, name) ==
  parent \o (IF needs_slash(parent) THEN << BS >> ELSE << >>) \o name

Fits(ideal, parent, name) == ideal \/ join_path(PathCap, parent, name)[1]

Listable(ideal, path, d) ==
  ideal \/ (make_glob(PathCap, path)[1] /\ S.dirs[d].open)

RealEntries(d) ==
  {i \in 1..Len(S.dirs[d].ents) :
     S.dirs[d].ents[i].name \notin {<<".">>, <<".", ".">>}}

\* the sub-directories of directory d (at path) the walk goes down into
SubDirs(ideal, path, d) ==
  { [path |-> PathOf(path, e.name), id |-> e.to] :
    e \in { S.dirs[d].ents[k] :
            k \in {i \in RealEntries(d) :
                     /\ S.dirs[d].ents[i].attr = {"DIR"}
                     /\ Fits(ideal, path, S.dirs[d].ents[i].name)} } }

\* the directories the walk visits below and including path (directory d)
RECURSIVE Visited(_, _, _)
Visited(ideal, path, d) ==
  {[path |-> path, id |-> d]} \cup
  IF Listable(ideal, path, d)
  THEN UNION { Visited(ideal, c.path, c.id) : c \in SubDirs(ideal, path, d) }
  ELSE {}

WalkDirs(ideal) == Visited(ideal, S.root, 1)

\* the file entries the walk sees: [name, path]
WalkFiles(ideal) ==
  UNION { { [name |-> S.dirs[n.id].ents[i].name,
             path |-> PathOf(n.path, S.dirs[n.id].ents[i].name)] :
            i \in {k \in RealEntries(n.id) :
                     /\ S.dirs[n.id].ents[k].attr = {}
                     /\ Fits(ideal, n.path, S.dirs[n.id].ents[k].name)} } :
          n \in {m \in WalkDirs(ideal) : Listable(ideal, m.path, m.id)} }

\* the paths of the files among them that pass the Matcher
WalkMatches(ideal) ==
  { f.path : f \in { g \in WalkFiles(ideal) :
       /\ ext_allowed(g.name, S.extcsv)
       /\ wcontains_i(IF S.full THEN g.path ELSE basename_ptr(g.path),
                      S.needle) } }

\* wmain has printed the summary and returned 0
Completed == mpc = "exited" /\ exitCode = 0

\* C4 (as amended): at completion every line of output is the path of a
\* file that passes the Matcher, whose path fits the working buffer, in a
\* directory the walk reaches through non-reparse sub-directories and can
\* list, no path is written twice; and when the platform refused nothing,
\* the output is exactly those paths, whatever the worker count.
C4_OutputIsTheWalk ==
  Completed =>
    /\ output \sqsubseteq SetToBag(WalkMatches(FALSE))
    /\ faults = 0 => output = SetToBag(WalkMatches(FALSE))

\* C4 (as claimed): the output at completion is exactly the files that pass
\* the Matcher in the directories reachable through non-reparse
\* sub-directories.
C4_AsClaimed ==
  Completed /\ faults = 0 => output = SetToBag(WalkMatches(TRUE))

\* two workers have finished a tree with a sub-directory and written the
\* two matching paths
C4_Witness ==
  /\ Completed /\ faults = 0 /\ requested = 2 /\ sc = 2
  /\ BagCardinality(output) = 2
  /\ \E w \in Workers, v \in Workers :
       w # v /\ \E x \in BagToSet(popped) : x[2] = w
             /\ \E y \in BagToSet(popped) : y[2] = v

\* the link of every path a worker owns or the queue holds
NoLinkFollowed ==
  /\ \A w \in Workers : dir[w] # << >> => ~Resolve(S, dir[w]).link
  /\ \A n \in 1..Len(q) : ~Resolve(S, q[n]).link

\* C5: no worker ever enumerates (owns, or finds queued) a directory reached
\* through a reparse point, and the run terminates also when a junction
\* leads back to an ancestor.
C5_ReparseNeverEntered == []NoLinkFollowed /\ <>[]Finished

\* the run on the tree with the junction back to the root has ended, the
\* directory that holds the junction scanned
C5_Witness ==
  /\ sc = 3 /\ Finished /\ Completed
  /\ \E x \in BagToSet(popped) : Resolve(S, x[1]).id = 2

\* C6 (as amended): the summary's dirs-scanned is the number of directories
\* the walk reaches whose path fits the buffer, files-scanned the number of
\* file entries whose path fits in those of them that can be listed: never
\* more, and exactly that when the platform refused nothing, for every N;
\* an empty root then gives 0 matches, 1 directory, 0 files, exit code 0.
C6_SummaryIsTheWalk ==
  Completed =>
    /\ summary[1] = BagCardinality(output)
    /\ summary[2] <= Cardinality(WalkDirs(FALSE))
    /\ summary[3] <= Cardinality(WalkFiles(FALSE))
    /\ faults = 0 =>
         /\ summary = << Cardinality(WalkMatches(FALSE)),
                         Cardinality(WalkDirs(FALSE)),
                         Cardinality(WalkFiles(FALSE)), requested >>
         /\ sc = 1 => summary = << 0, 1, 0, requested >>

\* C6 (as claimed): dirs-scanned is the number of directories reachable
\* through non-reparse sub-directories, files-scanned the number of file
\* entries in them.
C6_AsClaimed ==
  Completed /\ faults = 0 =>
    /\ summary[2] = Cardinality(WalkDirs(TRUE))
    /\ summary[3] = Cardinality(WalkFiles(TRUE))

\* the summary of a run of two workers on the tree with a sub-directory
C6_Witness ==
  /\ Completed /\ faults = 0 /\ requested = 2 /\ sc = 2
  /\ summary = << 2, 2, 3, 2 >>

\* C7: once stop is set it stays set; a wq_pop that finds it set returns the
\* stop-signal at once, leaving the FIFO, active_workers and every worker's
\* path alone; no path is queued after it; and every path queued once the
\* workers run is queued by a worker that is active, between the wq_pop
\* that gave it its directory and its wq_done_one.
C7_StopIsFinal ==
  /\ [][stop => stop']_vars
  /\ [][\A w \in Workers :
          stop /\ pc[w] = "pop_cs" /\ pc'[w] # "pop_cs" =>
            /\ pc'[w] = "exit"
            /\ q' = q /\ active_workers' = active_workers /\ dir' = dir
            /\ popped' = popped]_vars
  /\ [][pushed' # pushed /\ launched > 0 =>
          /\ ~stop
          /\ active_workers >= 1
          /\ \E w \in Workers :
               /\ pc[w] = "push_cs" /\ mu = w
               /\ dir[w] # << >>
               /\ BagIn(<<dir[w], w>>, popped)
               /\ ~BagIn(<<dir[w], w>>, freed)]_vars
  /\ [](stop => \A w \in Workers : pc[w] \notin {"push_enter", "push_cs"})

\* stop is set, one worker has left, another is inside wq_pop after it
C7_Witness ==
  /\ stop /\ BagCardinality(pushed) >= 2
  /\ \E w \in Workers, v \in Workers : pc[w] = "exit" /\ pc[v] = "pop_cs"

\* whether enumerating path fails: the pattern does not fit the buffer, or
\* FindFirstFileW returns INVALID_HANDLE_VALUE
EnumFails(path) ==
  \/ ~make_glob(PathCap, path)[1]
  \/ FindFirstFileW(S, make_glob(PathCap, path)[2]) = 0

\* C8: when enumerating a popped directory fails, the worker counts it in
\* dirs-scanned and touches no other counter, queues nothing, frees the
\* path and goes to wq_done_one, which takes one from active_workers and
\* sends the worker back to wq_pop; every pop is matched by one done, the
\* other directories are still scanned and the run terminates.
C8_FailedEnumeration ==
  /\ [][\A w \in Workers :
          pc[w] = "open" /\ pc'[w] # "open" /\ EnumFails(dir[w]) =>
            /\ dirs_scanned' = dirs_scanned + 1
            /\ UNCHANGED << found, files_scanned, output, q, pushed,
                            active_workers, stop >>
            /\ freed' = freed (+) One(<<dir[w], w>>)
            /\ pc'[w] = "done_enter"]_vars
  /\ [][\A w \in Workers :
          pc[w] = "done_cs" /\ pc'[w] # "done_cs" =>
            /\ active_workers' = active_workers - 1
            /\ pc'[w] = "pop_enter"]_vars
  /\ [](active_workers =
          Cardinality({w \in Workers : Scanning(w)}))
  /\ [](Completed /\ faults = 0 =>
          /\ dirs_scanned = Cardinality(WalkDirs(FALSE))
          /\ files_scanned = Cardinality(WalkFiles(FALSE)))
  /\ <>[]Finished

\* a worker has just given up a directory it could not enumerate, in a tree
\* where other directories can be
C8_Witness ==
  \E w \in Workers :
    /\ pc[w] = "done_enter"
    /\ \E x \in BagToSet(freed) : x[2] = w /\ EnumFails(x[1])
    /\ dirs_scanned >= 2

\* the frees of path p, by any thread
FreesOf(p) == {x \in BagToSet(freed) : x[1] = p}

\* C9: when a worker cannot queue a directory it found because an allocation
\* fails, the FIFO, active_workers and stop are as before and the worker
\* goes on with the next entry; the path is never queued nor popped; every
\* path allocated is freed exactly once by the end; the directories that
\* were queued are all scanned; and the run terminates.
C9_DroppedOnAllocFailure ==
  /\ [][\A w \in Workers :
          ( pc[w] = "scan" /\ faults' = faults + 1
            /\ << pc'[w], idx'[w] >> # << pc[w], idx[w] >> ) =>
            /\ UNCHANGED << q, active_workers, stop, pushed, popped,
                            dirs_scanned, files_scanned, found, output >>
            /\ pc'[w] \in {"scan", "done_enter"}
            /\ allocd' # allocd =>
                 \E p \in BagToSet(allocd') :
                   /\ allocd' = allocd (+) One(p)
                   /\ freed' =
                        freed (+) One(<<p, w>>) (+)
                        (IF pc'[w] = "done_enter"
                         THEN One(<<dir[w], w>>) ELSE EmptyBag)]_vars
  /\ [](\A p \in BagToSet(allocd) :
          /\ CopiesIn(p, allocd) = 1
          /\ Cardinality(FreesOf(p)) <= 1
          /\ \A x \in FreesOf(p) : CopiesIn(x, freed) = 1
          /\ Finished => Cardinality(FreesOf(p)) = 1)
  /\ [](\A x \in BagToSet(popped) : BagIn(x[1], pushed))
  /\ [](Completed /\ launched >= 1 =>
          /\ \A p \in BagToSet(pushed) :
               \E x \in BagToSet(popped) : x[1] = p
          /\ dirs_scanned = BagCardinality(pushed))
  /\ <>[]Finished

\* a run has completed in which the node for a directory a worker found
\* could not be allocated: the path was allocated, never queued, and a
\* sub-directory of the walk was not scanned
C9_Witness ==
  /\ Completed /\ Finished /\ launched >= 1
  /\ \E p \in BagToSet(allocd) :
       p # S.root /\ ~BagIn(p, pushed) /\ Cardinality(FreesOf(p)) = 1
  /\ dirs_scanned < Cardinality(WalkDirs(FALSE))

\* C10: when CreateThread fails for worker i of N, the run completes with
\* the workers that were created and its traversal is the complete one: the
\* summary and the output are those of the run with N workers.
C10_LaunchFailure ==
  Completed /\ threads < requested /\ faults = 1 =>
    /\ \A w \in Workers : pc[w] \in {"idle", "exit"}
    /\ launched = threads
    /\ output = SetToBag(WalkMatches(FALSE))
    /\ summary = << Cardinality(WalkMatches(FALSE)),
                    Cardinality(WalkDirs(FALSE)),
                    Cardinality(WalkFiles(FALSE)), threads >>

\* wmain is past its wait step and the process has not ended
PastWait == mpc \in {"teardown", "summary"}

\* C11: once the Driver's wait step has returned (it tears down the locks
\* and the queue, then reads the counters) every worker that was started
\* has terminated, for every configured worker count.
C11_ReadAfterJoin ==
  PastWait => \A w \in Workers : pc[w] \in {"idle", "exit"}

\* the entry worker w is at is a real entry whose joined path, with its
\* terminating NUL, is longer than the working buffer
Overflows(w) ==
  /\ pc[w] = "scan"
  /\ ~is_dot_or_dotdot(Entry(w).name)
  /\ Len(PathOf(dir[w], Entry(w).name)) + 1 > PathCap

\* worker w takes a step of its own from the entry it is at
LeavesEntry(w) == << pc'[w], idx'[w] >> # << pc[w], idx[w] >>

\* C12: when the joined path of an entry does not fit the working buffer the
\* worker skips that entry only: no counter, no output, no allocation and
\* nothing in the queue changes; it goes on with the next entry of the same
\* directory, or after the last entry frees the path and goes to
\* wq_done_one; and a worker scanning a directory always reaches its
\* wq_done_one.
C12_OverflowSkipsOneEntry ==
  /\ [][\A w \in Workers :
          Overflows(w) /\ LeavesEntry(w) =>
            /\ UNCHANGED << found, dirs_scanned, files_scanned, output, q,
                            active_workers, stop, allocd, pushed, popped,
                            faults >>
            /\ IF idx[w] < Len(S.dirs[h[w]].ents)
               THEN /\ pc'[w] = "scan" /\ idx'[w] = idx[w] + 1
                    /\ h'[w] = h[w] /\ dir'[w] = dir[w]
                    /\ freed' = freed
               ELSE /\ pc'[w] = "done_enter"
                    /\ freed' = freed (+) One(<<dir[w], w>>)]_vars
  /\ \A w \in Workers : (pc[w] = "scan") ~> (pc[w] = "done_cs")

\* a worker has skipped long.c, whose path does not fit, counted no file for
\* it and is at its sibling e
C12_Witness ==
  \E w \in Workers :
    /\ pc[w] = "scan" /\ idx[w] >= 2
    /\ Len(PathOf(dir[w], S.dirs[h[w]].ents[idx[w] - 1].name)) + 1 > PathCap
    /\ ~is_dot_or_dotdot(S.dirs[h[w]].ents[idx[w] - 1].name)
    /\ Entry(w).attr = {"DIR"}
    /\ files_scanned = 0


\* a worker has left a directory whose last entry did not fit: it is on its
\* way to wq_done_one and the path is freed
C12_LastEntry ==
  \E w \in Workers : \E x \in BagToSet(freed) :
    /\ pc[w] = "done_enter" /\ x[2] = w
    /\ LET d == Resolve(S, x[1]).id
       IN  /\ d # 0 /\ S.dirs[d].open
           /\ Len(PathOf(x[1], S.dirs[d].ents[Len(S.dirs[d].ents)].name)) + 1
                > PathCap

\* the workers inside the region that writes a line
Writers == {w \in Workers : pc[w] = "out_cs"}

\* C13: at most one worker at a time is inside the region that writes a
\* matched path, and it owns out_mu; a line is added to the output only by
\* that worker, one whole path at a time.
C13_OutputSerialized ==
  /\ [](/\ Cardinality(Writers) <= 1
        /\ \A w \in Writers : out_mu = w
        /\ out_mu # 0 => out_mu \in Writers)
  /\ [][output' # output =>
          \E w \in Writers :
            /\ out_mu = w /\ out_mu' = 0
            /\ Full(w)[1]
            /\ output' = output (+) One(Full(w)[2])
            /\ pc'[w] # "out_cs"]_vars

\* one worker is writing its line while another, holding a match of its
\* own, waits for out_mu
C13_Witness ==
  \E w \in Workers, v \in Workers :
    w # v /\ pc[w] = "out_cs" /\ out_mu = w /\ pc[v] = "out_enter"

(***************************************************************************)
(* The Matcher as the specification words it.                              *)
(***************************************************************************)
IsSpace(c) == c \in {" ", "\t"}

\* two texts are equal ignoring case, over their whole length
SameText(a, b) ==
  Len(a) = Len(b) /\ \A k \in 1..Len(a) : Lower(a[k]) = Lower(b[k])

\* the text after the last '.' of a name, empty when there is no '.'
Extension(name) ==
  IF \A i \in 1..Len(name) : name[i] # "." THEN << >>
  ELSE LET dot == CHOOSE i \in 1..Len(name) :
                    /\ name[i] = "."
                    /\ \A j \in (i + 1)..Len(name) : name[j] # "."
       IN  SubSeq(name, dot + 1, Len(name))

\* the entries of a comma-separated list: the non-empty texts between commas
ListEntries(csv) ==
  { SubSeq(csv, r[1], r[2]) :
    r \in { x \in (1..Len(csv)) \X (1..Len(csv)) :
              /\ x[1] <= x[2]
              /\ \A k \in x[1]..x[2] : csv[k] # ","
              /\ (x[1] = 1 \/ csv[x[1] - 1] = ",")
              /\ (x[2] = Len(csv) \/ csv[x[2] + 1] = ",") } }

\* the extension filter in the specification's words
PassesExtensionFilter(name, csv) ==
  \/ csv = << >>
  \/ /\ Extension(name) # << >>
     /\ \E e \in ListEntries(csv) : SameText(Extension(name), e)

\* C14: for lists without spaces and tabs, ext_allowed passes every file
\* when the list is empty and otherwise exactly the files whose text after
\* the last '.' is non-empty and equals an entry of the list ignoring case
\* over its whole length; a.TXT passes the list txt, a.text does not, and a
\* name without an extension fails.
C14_ExtensionFilter ==
  call.fn = "ext_allowed" /\ call.done
  /\ (\A k \in 1..Len(call.extcsv) : ~IsSpace(call.extcsv[k])) =>
    /\ call.ret = PassesExtensionFilter(call.filename, call.extcsv)
    /\ call.extcsv = << >> => call.ret
    /\ call.extcsv = <<"t", "x", "t">> =>
         /\ call.filename = <<"a", ".", "T", "X", "T">> => call.ret
         /\ call.filename = <<"a", ".", "t", "e", "x", "t">> => ~call.ret
         /\ call.filename = <<"a">> => ~call.ret

\* ext_allowed has passed a.TXT for the list c,txt
C14_Witness ==
  /\ call.fn = "ext_allowed" /\ call.done /\ call.ret
  /\ call.filename = <<"a", ".", "T", "X", "T">>
  /\ call.extcsv = <<"c", ",", "t", "x", "t">>

\* position i of a list holds a space or tab at the front of its entry
LeadingSpace(csv, i) ==
  /\ IsSpace(csv[i])
  /\ \A j \in 1..i : (\A k \in j..i : csv[k] # ",") => IsSpace(csv[j])

\* position i of a list holds a space or tab at the back of its entry
TrailingSpace(csv, i) ==
  /\ IsSpace(csv[i])
  /\ \A j \in i..Len(csv) :
       (\A k \in i..j : csv[k] # ",") => IsSpace(csv[j])

\* the list with the spaces and tabs around its entries removed
RECURSIVE StripFrom(_, _)
StripFrom(csv, i) ==
  IF i > Len(csv) THEN << >>
  ELSE IF LeadingSpace(csv, i) \/ TrailingSpace(csv, i)
       THEN StripFrom(csv, i + 1)
       ELSE << csv[i] >> \o StripFrom(csv, i + 1)

Strip(csv) == StripFrom(csv, 1)

\* C15: a list whose entries carry leading or trailing spaces or tabs passes
\* exactly the files that the list with those entries stripped passes
\* (stated for the lists that do not strip to the empty list).
C15_EntriesTrimmed ==
  call.fn = "ext_allowed" /\ call.done /\ Strip(call.extcsv) # << >> =>
    call.ret = ext_allowed(call.filename, Strip(call.extcsv))

\* the same for spaces and tabs in front of the entries only, which is what
\* the loop of ext_allowed skips
OnlyLeadingSpace(csv) ==
  \A i \in 1..Len(csv) : IsSpace(csv[i]) => LeadingSpace(csv, i)

LeadingTrimmed ==
  ( /\ call.fn = "ext_allowed" /\ call.done
    /\ OnlyLeadingSpace(call.extcsv) /\ Strip(call.extcsv) # << >> ) =>
    call.ret = ext_allowed(call.filename, Strip(call.extcsv))

\* the needle occurs in s, ignoring case, as a contiguous substring
Occurs(needle, s) ==
  \E i \in 0..(Len(s) - Len(needle)) :
    SameText(SubSeq(s, i + 1, i + Len(needle)), needle)

\* the files of the walk that the specification's two filters pass
Passing ==
  { f.path : f \in { g \in WalkFiles(FALSE) :
      /\ ext_allowed(g.name, S.extcsv)
      /\ Occurs(S.needle, IF S.full THEN g.path ELSE g.name) } }

\* C16: the substring test passes a file exactly when the needle occurs,
\* ignoring case, as a contiguous substring of the entry's name (default) or
\* of its joined path (full-path mode), and always when the needle is empty;
\* a completed run that was refused nothing writes exactly the files that
\* pass both filters, with an empty needle the files that pass ext_allowed,
\* and with a needle that occurs nowhere it writes nothing and exits with 0.
C16_SubstringFilter ==
  /\ call.fn = "match" /\ call.done =>
       /\ call.ret =
            Occurs(call.needle,
                   IF call.match_full_path
                   THEN PathOf(call.dir, call.filename)
                   ELSE call.filename)
       /\ call.needle = << >> => call.ret
  /\ call = NoCall /\ mpc = "exited" /\ exitCode # 1 /\ faults = 0 =>
       /\ output = SetToBag(Passing)
       /\ S.needle = << >> =>
            output = SetToBag({ f.path : f \in { g \in WalkFiles(FALSE) :
                                  ext_allowed(g.name, S.extcsv) } })
       /\ (\A f \in WalkFiles(TRUE) :
             ~Occurs(S.needle, IF S.full THEN f.path ELSE f.name)) =>
            output = EmptyBag /\ found = 0 /\ exitCode = 0

\* the substring test has found the needle AT inside the name cAt, by its
\* base name
C16_Witness ==
  /\ call.fn = "match" /\ call.done /\ call.ret
  /\ call.needle = <<"A", "T">> /\ call.filename = <<"c", "A", "t">>
  /\ ~call.match_full_path

\* runs have completed with an empty needle, and with a needle that occurs
\* in none of the files scanned
C16_EmptyNeedleRun ==
  call = NoCall /\ Completed /\ faults = 0 /\ S.needle = << >>
  /\ output # EmptyBag

C16_NowhereRun ==
  call = NoCall /\ Completed /\ faults = 0 /\ files_scanned = 2
  /\ output = EmptyBag

\* the workers that have popped a directory and not yet counted it done
Active == {w \in Workers : Scanning(w)}

\* C17: active_workers always equals the number of workers that have popped
\* a directory and not yet called wq_done_one for it, and lies in 0..N; a
\* worker pops only when it holds no directory; the pop that removes the
\* head adds one in the same step; nothing but that pop and wq_done_one
\* changes the count; and every pop is followed by the worker's
\* wq_done_one.
C17_ActiveCount ==
  /\ [](/\ active_workers = Cardinality(Active)
        /\ active_workers \in 0..requested
        /\ \A w \in Workers : dir[w] # << >> => w \in Active)
  /\ [][popped' # popped =>
          \E w \in Workers :
            /\ pc[w] = "pop_cs" /\ mu = w /\ w \notin Active
            /\ dir[w] = << >>
            /\ q # << >> /\ q' = Tail(q) /\ dir'[w] = Head(q)
            /\ popped' = popped (+) One(<<Head(q), w>>)
            /\ active_workers' = active_workers + 1
            /\ Active' = Active \cup {w}]_vars
  /\ [][active_workers' # active_workers =>
          \/ popped' # popped
          \/ \E w \in Workers :
               /\ pc[w] = "done_cs" /\ mu = w /\ pc'[w] = "pop_enter"
               /\ active_workers' = active_workers - 1
               /\ Active' = Active \ {w}]_vars
  /\ \A w \in Workers : (pc[w] = "open") ~> (pc[w] = "done_cs")

\* both workers of a run with two hold a popped directory
C17_Witness ==
  /\ active_workers = 2 /\ requested = 2
  /\ \A w \in Workers : dir[w] # << >> /\ pc[w] = "scan"

\* nothing the platform refused in this run was an allocation: the only
\* refusal, if any, is the CreateThread that cut threads short
NoAllocationFailure == faults = IF threads < requested THEN 1 ELSE 0

\* C18: in every run that reaches the Driver's teardown and summary without
\* an allocation failure the work queue is empty when wq_destroy gets it,
\* and the pops that returned a path are as many as the pushes, the seed
\* push of the root included.
C18_EveryPushPopped ==
  NoAllocationFailure =>
    /\ mpc = "teardown" => q = << >>
    /\ mpc \in {"teardown", "summary"} \/ Completed =>
         BagCardinality(popped) = BagCardinality(pushed)

\* the paths queued, and the paths wq_pop has returned
Queued == {q[i] : i \in 1..Len(q)}
Returned == {x[1] : x \in BagToSet(popped)}

\* C19: a push links its path behind every path queued and leaves those and
\* active_workers as they are; a pop that returns a path returns the first
\* of the queue and leaves the others in their order; and until wq_destroy
\* the queue holds, once each, exactly the paths pushed and not yet
\* returned.  Every path queued was therefore pushed before every path
\* behind it, and the path a pop returns is the earliest pushed among those
\* not yet popped.
C19_Fifo ==
  /\ [][pushed' # pushed =>
          \E x \in BagToSet(pushed') :
            /\ pushed' = pushed (+) One(x)
            /\ Len(q') = Len(q) + 1
            /\ \A i \in 1..Len(q) : q'[i] = q[i]
            /\ q'[Len(q')] = x
            /\ active_workers' = active_workers]_vars
  /\ [][popped' # popped =>
          /\ q # << >>
          /\ \E w \in Workers :
               /\ popped' = popped (+) One(<<q[1], w>>)
               /\ dir'[w] = q[1]
          /\ Len(q') = Len(q) - 1
          /\ \A i \in 1..Len(q') : q'[i] = q[i + 1]]_vars
  /\ [](mpc \notin {"summary", "exited"} =>
          /\ Queued = BagToSet(pushed) \ Returned
          /\ Cardinality(Queued) = Len(q))

\* the worker that scanned ro has queued ro\e and then ro\x; a pop has
\* returned ro\e, and ro\x is still queued
C19_Witness ==
  \E w \in Workers :
    /\ dir[w] = <<"r", "o", BS, "e">>
    /\ q = << <<"r", "o", BS, "x">> >>


\* the worker threads that have started and have not terminated, and those
\* of them that are blocked in SleepConditionVariableCS.  A wake-up moves
\* its thread out of "sleep" at once, so a thread at "sleep" has none pending
Alive == {w \in Workers : pc[w] \notin {"idle", "exit", "killed"}}
Blocked == {w \in Alive : pc[w] = "sleep"}

\* work is left: a path is queued or a worker is counted active
WorkPending == q # << >> \/ active_workers > 0

\* C20: no wake-up is lost.  While stop is false and work is pending, the
\* worker threads that have not terminated are never all blocked on cv; and
\* every push and every wq_done_one leaves a worker that is not blocked,
\* whatever spurious wake-ups happened and whether or not a worker was
\* waiting when the wake-up was sent.
C20_NoLostWakeup ==
  /\ [](~stop /\ WorkPending /\ Alive # {} => Blocked # Alive)
  /\ [][(pushed' # pushed \/ active_workers' < active_workers) /\ Alive' # {}
          => \E w \in Alive' : pc'[w] # "sleep"]_vars

\* a worker is blocked on cv while another one, still scanning, is the one
\* whose push or wq_done_one has to wake it
C20_Witness ==
  \E w1, w2 \in Workers :
    /\ ~stop
    /\ pc[w1] = "sleep"
    /\ Scanning(w2)
    /\ active_workers > 0

=============================================================================
